---- MODULE Spec2Model ----
(***************************************************************************)
(* Model of jax/experimental/jax2iree/ir_builder.py: the Builder that owns *)
(* one module under construction and the FunctionBuilder that owns one     *)
(* function body.  The IR objects (module, function ops, blocks, insertion *)
(* points, types, values) are the MLIR Python objects the code calls into; *)
(* they are modelled by what those calls do to the IR.                     *)
(***************************************************************************)
EXTENDS Integers, Sequences, FiniteSets, TLC

\* ------------------------------------------------------------------ bounds
MaxFuncs == 2
MaxArgs == 2
MaxRank == 2
MaxDim == 3
MaxTol == 2
MaxLims == 3

\* ------------------------------------------------------------- IR objects
\* Python's None, where it is stored in a field.
None == "None"

\* A Python object that is neither an ir.Type nor an ir.Value.
PyNone == [kind |-> "NoneType"]

F32Type == [kind |-> "f32"]

RankedTensorType(shape, element_type) ==
  [kind |-> "ranked", shape |-> shape, element_type |-> element_type]

UnrankedTensorType(element_type) ==
  [kind |-> "unranked", element_type |-> element_type]

IsType(t) == t.kind \in {"f32", "ranked", "unranked"}

UnknownLoc == "loc(unknown)"

\* Sequences over S of length at most n.
SeqUpTo(S, n) == UNION {[1..k -> S] : k \in 0..n}

\* The types the callers of this model put in signatures: tensor<4xf32> and
\* tensor<*xf32>.
T1 == RankedTensorType(<<4>>, F32Type)

T2 == UnrankedTensorType(F32Type)

Names == {"identity", "f"}

\* The argument lists a caller passes to create_function: one or two input
\* types, or a list holding an object that is not an ir.Type; no or one
\* declared result type.
InputTypeArgs == {<<T1>>, <<T1, T2>>, <<PyNone>>}

ReturnTypeArgs == {<<>>, <<T1>>}

\* ------------------------------------------------------------------ state
VARIABLES
  context,      \* Builder.context
  current_loc,  \* Builder.current_loc
  module,       \* Builder.module: the ModuleOp, body = its top-level operations
  ip,           \* Builder.ip
  fbs,          \* the FunctionBuilders returned so far, in order of creation
  lastCall,     \* the latest call made on a builder and how it ended
  conv,         \* the latest type conversion: its argument and its outcome
  uniquer,      \* the types the context has allocated, and the identities
                \* the conversions have returned
  dconv,        \* the latest dtype round trip: its argument and its outcome
  loc_read,     \* what the latest read of Builder.loc returned
  contexts,     \* the context given to Builder.__init__ and those it created
  lim           \* the latest call on Jax2TfLimitation and how it ended

vars ==
  <<context, current_loc, module, ip, fbs, lastCall, conv, uniquer, dconv,
    loc_read, contexts, lim>>

\* The mutant of loc: the property ignores current_loc.
loc_always_unknown == UnknownLoc

\* Builder.loc
loc == IF current_loc = None THEN UnknownLoc ELSE current_loc

\* ir.FunctionType.get(inputs, results): raises on a non-Type element.
FunctionTypeOk(inputs, results) ==
  /\ \A k \in DOMAIN inputs : IsType(inputs[k])
  /\ \A k \in DOMAIN results : IsType(results[k])

FunctionType(inputs, results) == [inputs |-> inputs, results |-> results]

\* The mutant of FuncOp: the function is created with no result types.
FuncOpNoResults(name, ftype, l) ==
  [op |-> "builtin.func", sym_name |-> name,
   type |-> [inputs |-> ftype.inputs, results |-> <<>>], loc |-> l,
   blocks |-> <<>>]

\* builtin.FuncOp(name, ftype, loc=...): a function without blocks yet.
FuncOp(name, ftype, l) ==
  [op |-> "builtin.func", sym_name |-> name, type |-> ftype, loc |-> l,
   blocks |-> <<>>]

\* std.ReturnOp(values, loc=...)
ReturnOp(values, l) == [op |-> "std.return", operands |-> values, loc |-> l]

IsTerminator(o) == o.op = "std.return"

\* ir.InsertionPoint(module.body) and ir.InsertionPoint(entry_block): the end
\* of the module body (func = 0) or of the entry block of function func.
InsertionPoint(func) == [func |-> func]

BlockOps(m, p) ==
  IF p.func = 0 THEN m.body ELSE m.body[p.func].blocks[1].operations

\* The mutant of Insert: appends without looking at the block's last operation.
InsertNoTerminatorCheck(m, p, o) ==
  [raised |-> "none",
   module |-> IF p.func = 0
              THEN [m EXCEPT !.body = Append(@, o)]
              ELSE [m EXCEPT !.body[p.func].blocks[1].operations = Append(@, o)]]

\* Creating an operation with ip=p, p = ir.InsertionPoint(block): the
\* operation is appended at the end of the block.  The insertion point of the
\* MLIR Python bindings raises IndexError ("Cannot insert operation at the end
\* of a block that already has a terminator") when the block's last operation
\* is a terminator, and inserts nothing; emit_return has no check of its own.
Insert(m, p, o) ==
  LET ops == BlockOps(m, p) IN
  IF ops # <<>> /\ IsTerminator(ops[Len(ops)])
  THEN [raised |-> "IndexError", module |-> m]
  ELSE [raised |-> "none",
        module |-> IF p.func = 0
                   THEN [m EXCEPT !.body = Append(@, o)]
                   ELSE [m EXCEPT !.body[p.func].blocks[1].operations =
                                     Append(@, o)]]

\* func_op.add_entry_block(): one block whose arguments have the input types.
add_entry_block(f) ==
  [f EXCEPT !.blocks = <<[arguments |-> f.type.inputs, operations |-> <<>>]>>]

\* The values of function f of module m: the arguments of its entry block.
BlockArguments(m, f) ==
  {[kind |-> "BlockArgument", owner |-> f, arg_number |-> k,
    type |-> m.body[f].blocks[1].arguments[k]] :
     k \in DOMAIN m.body[f].blocks[1].arguments}

\* The number of entry-block arguments in module m.
RECURSIVE NumArgs(_, _)
NumArgs(m, n) ==
  IF n = 0 THEN 0 ELSE Len(m.body[n].blocks[1].arguments) + NumArgs(m, n - 1)

\* What a caller passes as values to the builder of function f: values of
\* that function, each at most once, in any order.
ValueArgs(m, f) ==
  {values \in SeqUpTo(BlockArguments(m, f), Cardinality(BlockArguments(m, f))) :
     \A j, k \in DOMAIN values : j # k => values[j] # values[k]}

\* [v.type for v in values]
ReturnTypes(values) == [k \in DOMAIN values |-> values[k].type]

\* The mutant of SetFunctionType: the values' types are added to the declared
\* result types instead of replacing them.
SetFunctionTypeMerged(m, f, values) ==
  [m EXCEPT !.body[f].type =
              [inputs |-> @.inputs, results |-> @.results \o
                 [k \in DOMAIN values |-> values[k].type]]]

\* A mutant of SetFunctionType: the new function type has no inputs.
SetFunctionTypeDropsInputs(m, f, values) ==
  [m EXCEPT !.body[f].type = FunctionType(<<>>, ReturnTypes(values))]

\* func_op.attributes["type"] = TypeAttr(FunctionType(ftype.inputs, return_types))
SetFunctionType(m, f, values) ==
  [m EXCEPT !.body[f].type = FunctionType(@.inputs, ReturnTypes(values))]

\* FunctionBuilder.__init__(builder, func_op), func_op being m.body[f]:
\* the new FunctionBuilder and the module with the entry block added.
FunctionBuilder(ctx, m, f) ==
  [fb |-> [context |-> ctx, func_op |-> f, ip |-> InsertionPoint(f)],
   module |-> [m EXCEPT !.body[f] = add_entry_block(@)]]

\* The mutant of CreateFunctionResult: a name already in the module is refused.
CreateFunctionUniqueNames(ctx, m, p, builders, l, name, input_types, return_types) ==
  IF \/ \E k \in DOMAIN input_types : ~IsType(input_types[k])
     \/ \E k \in DOMAIN return_types : ~IsType(return_types[k])
  THEN [raised |-> "TypeError", module |-> m, fbs |-> builders]
  ELSE IF \E i \in DOMAIN m.body : m.body[i].sym_name = name
  THEN [raised |-> "ValueError", module |-> m, fbs |-> builders]
  ELSE LET f == Len(m.body) + 1
           func_op == [op |-> "builtin.func", sym_name |-> name,
                       type |-> [inputs |-> input_types,
                                 results |-> return_types],
                       loc |-> l,
                       blocks |-> <<[arguments |-> input_types,
                                     operations |-> <<>>]>>]
       IN  [raised |-> "none",
            module |-> [m EXCEPT !.body = Append(@, func_op)],
            fbs |-> Append(builders, [context |-> ctx, func_op |-> f,
                                      ip |-> [func |-> f]])]

\* A mutant of CreateFunctionResult: one cursor is shared, and it is where the
\* latest FunctionBuilder put it, so the next function goes into the entry
\* block of the function before.
CreateFunctionSharedCursor(ctx, m, p, builders, l, name, input_types, return_types) ==
  IF ~FunctionTypeOk(input_types, return_types)
  THEN [raised |-> "TypeError", module |-> m, fbs |-> builders]
  ELSE LET q == IF builders = <<>> THEN p ELSE builders[Len(builders)].ip
           f == Len(builders) + 1
           func_op == [op |-> "builtin.func", sym_name |-> name,
                       type |-> [inputs |-> input_types,
                                 results |-> return_types],
                       loc |-> l,
                       blocks |-> <<[arguments |-> input_types,
                                     operations |-> <<>>]>>]
           r == Insert(m, q, func_op)
       IN  IF r.raised # "none"
           THEN [raised |-> r.raised, module |-> m, fbs |-> builders]
           ELSE [raised |-> "none", module |-> r.module,
                 fbs |-> Append(builders, [context |-> ctx, func_op |-> f,
                                           ip |-> [func |-> f]])]

\* Builder.create_function as a function of the state it reads: the exception
\* it ends with ("none": it returns), the module and the FunctionBuilders after.
CreateFunctionResult(ctx, m, p, builders, l, name, input_types, return_types) ==
  IF ~FunctionTypeOk(input_types, return_types)
  THEN [raised |-> "TypeError", module |-> m, fbs |-> builders]
  ELSE LET ftype == FunctionType(input_types, return_types)
           r == Insert(m, p, FuncOp(name, ftype, l))
       IN  IF r.raised # "none"
           THEN [raised |-> r.raised, module |-> m, fbs |-> builders]
           ELSE LET b == FunctionBuilder(ctx, r.module, Len(r.module.body))
                IN  [raised |-> "none", module |-> b.module,
                     fbs |-> Append(builders, b.fb)]

\* A mutant of EmitReturnResult: the function type is rewritten before the
\* return operation is created.
EmitReturnUpdateFirst(m, fb, l, values, update_type) ==
  LET u == IF update_type THEN SetFunctionType(m, fb.func_op, values) ELSE m
      r == Insert(u, fb.ip, ReturnOp(values, l))
  IN  [raised |-> r.raised, module |-> r.module]

\* A mutant of EmitReturnResult: update_type is not looked at.
EmitReturnAlwaysUpdates(m, fb, l, values, update_type) ==
  LET r == Insert(m, fb.ip, ReturnOp(values, l)) IN
  IF r.raised # "none"
  THEN [raised |-> r.raised, module |-> m]
  ELSE [raised |-> "none",
        module |-> SetFunctionType(r.module, fb.func_op, values)]

\* A mutant of EmitReturnResult: the return operation is created without
\* loc=, so it is tagged with the unknown location.
EmitReturnNoLoc(m, fb, l, values, update_type) ==
  LET r == Insert(m, fb.ip, ReturnOp(values, UnknownLoc)) IN
  IF r.raised # "none"
  THEN [raised |-> r.raised, module |-> m]
  ELSE IF update_type
       THEN [raised |-> "none",
             module |-> SetFunctionType(r.module, fb.func_op, values)]
       ELSE [raised |-> "none", module |-> r.module]

\* A mutant of EmitReturnResult: the type of the module's first function is
\* rewritten instead of the type of the builder's own function.
EmitReturnUpdatesFirstFunction(m, fb, l, values, update_type) ==
  LET r == Insert(m, fb.ip, ReturnOp(values, l)) IN
  IF r.raised # "none"
  THEN [raised |-> r.raised, module |-> m]
  ELSE IF update_type
       THEN [raised |-> "none", module |-> SetFunctionType(r.module, 1, values)]
       ELSE [raised |-> "none", module |-> r.module]

\* A mutant of EmitReturnResult: update_type is read the wrong way round.
EmitReturnFlagInverted(m, fb, l, values, update_type) ==
  LET r == Insert(m, fb.ip, ReturnOp(values, l)) IN
  IF r.raised # "none"
  THEN [raised |-> r.raised, module |-> m]
  ELSE IF ~update_type
       THEN [raised |-> "none",
             module |-> SetFunctionType(r.module, fb.func_op, values)]
       ELSE [raised |-> "none", module |-> r.module]

\* FunctionBuilder.emit_return as a function of the state it reads: the
\* exception it ends with ("none": it returns) and the module after.  The
\* return operation is created at the builder's insertion point first; the
\* function type is rewritten after that, if update_type.
EmitReturnResult(m, fb, l, values, update_type) ==
  LET r == Insert(m, fb.ip, ReturnOp(values, l)) IN
  IF r.raised # "none"
  THEN [raised |-> r.raised, module |-> m]
  ELSE IF update_type
       THEN [raised |-> "none",
             module |-> SetFunctionType(r.module, fb.func_op, values)]
       ELSE [raised |-> "none", module |-> r.module]

\* ---------------------------------------------------------- type conversion
\* The abstract values of jax.core the conversion is given.  ShapedArray is a
\* subclass of UnshapedArray; AbstractToken and AbstractUnit are neither.
DTypes == {"float32", "int32", "bool"}

Shapes == SeqUpTo(0..MaxDim, MaxRank)

ShapedArray(shape, dtype) == [cls |-> "ShapedArray", shape |-> shape, dtype |-> dtype]

UnshapedArray(dtype) == [cls |-> "UnshapedArray", dtype |-> dtype]

AbstractToken == [cls |-> "AbstractToken"]

AbstractUnit == [cls |-> "AbstractUnit"]

AbstractValues ==
  {ShapedArray(shape, dtype) : shape \in Shapes, dtype \in DTypes}
    \cup {UnshapedArray(dtype) : dtype \in DTypes}
    \cup {AbstractToken, AbstractUnit}

\* isinstance(aval, core.<cls>)
isinstance(aval, cls) ==
  \/ aval.cls = cls
  \/ aval.cls = "ShapedArray" /\ cls = "UnshapedArray"

\* Builder.convert_dtype_to_ir_type
convert_dtype_to_ir_type(dtype) == F32Type

\* The message of an exception: its text and the value formatted into it.
Message(text, value) == [text |-> text, value |-> value]

NoMessage == Message("", [cls |-> "None"])

\* The mutant of convert_aval_to_ir_type: the method falls off its end, so it
\* returns None for an abstract value of another class.
convert_aval_no_raise(aval) ==
  IF aval.cls = "ShapedArray"
  THEN [raised |-> "none", message |-> NoMessage,
        type |-> RankedTensorType(aval.shape, F32Type)]
  ELSE IF aval.cls = "UnshapedArray"
  THEN [raised |-> "none", message |-> NoMessage,
        type |-> UnrankedTensorType(F32Type)]
  ELSE [raised |-> "none", message |-> NoMessage, type |-> PyNone]

\* Builder.convert_aval_to_ir_type: the exception ("none": it returns) with
\* its message, and the type returned.
convert_aval_to_ir_type(aval) ==
  IF isinstance(aval, "ShapedArray")
  THEN [raised |-> "none", message |-> NoMessage,
        type |-> RankedTensorType(aval.shape, convert_dtype_to_ir_type(aval.dtype))]
  ELSE IF isinstance(aval, "UnshapedArray")
  THEN [raised |-> "none", message |-> NoMessage,
        type |-> UnrankedTensorType(convert_dtype_to_ir_type(aval.dtype))]
  ELSE [raised |-> "NotImplementedError",
        message |-> Message("Unsupported AbstractValue conversion: ", aval),
        type |-> PyNone]

\* The size a ranked type stores for a dimension that is dynamic.
kDynamicSize == -1

\* An entry of the list get_shaped_type_dims_list returns: an int or None.
IntDim(n) == [is_none |-> FALSE, value |-> n]

NoneDim == [is_none |-> TRUE, value |-> 0]

\* A mutant of get_dim: the stored size is returned without asking whether the
\* dimension is dynamic.
get_dim_raw_size(t, index) == IntDim(t.shape[index])

\* The mutant of get_dim: the size is tested for truth, so 0 reads as dynamic.
get_dim_zero_is_none(t, index) ==
  IF t.shape[index] = kDynamicSize \/ t.shape[index] = 0
  THEN NoneDim ELSE IntDim(t.shape[index])

\* get_dim(index) of get_shaped_type_dims_list, for the ranked type t.
get_dim(t, index) ==
  IF t.shape[index] = kDynamicSize THEN NoneDim ELSE IntDim(t.shape[index])

\* The mutant of get_shaped_type_dims_list: a type without rank is read as a
\* type of rank 0.
get_shaped_type_dims_list_rank0(t) ==
  IF t.kind # "ranked"
  THEN [raised |-> "none", dims |-> <<>>]
  ELSE [raised |-> "none",
        dims |-> [index \in 1..Len(t.shape) |-> get_dim(t, index)]]

\* Builder.get_shaped_type_dims_list: t.rank raises on a type without rank.
get_shaped_type_dims_list(t) ==
  IF t.kind # "ranked"
  THEN [raised |-> "ValueError", dims |-> <<>>]
  ELSE [raised |-> "none",
        dims |-> [index \in 1..Len(t.shape) |-> get_dim(t, index)]]

Conv(op, aval, type, dims, raised, message) ==
  [op |-> op, aval |-> aval, type |-> type, dims |-> dims, raised |-> raised,
   message |-> message]

NoConv == Conv("none", [cls |-> "None"], PyNone, <<>>, "none", NoMessage)

\* Builder.convert_ir_type_to_dtype: np.float32 for every element type.
convert_ir_type_to_dtype(element_type) == "float32"

\* The mutant of dtype_round_trip: a pair of conversions that widens the dtype
\* by one step on every round trip.
dtype_round_trip_widening(dtype) ==
  IF dtype = "bool" THEN "int32" ELSE "float32"

\* A dtype converted to an element type and back.
dtype_round_trip(dtype) ==
  convert_ir_type_to_dtype(convert_dtype_to_ir_type(dtype))

\* The record of a round trip: the dtype given, the element type it became,
\* the dtype that came back, and the dtype the round trip before returned.
DConv(dtype, type, back, prev) ==
  [dtype |-> dtype, type |-> type, back |-> back, prev |-> prev]

NoDConv == DConv("none", PyNone, "none", "none")

\* The abstract values whose types' identities are followed: two of one
\* shape and different dtypes, the scalar, a matrix, and one without shape.
InternAvals ==
  {ShapedArray(<<>>, "float32"), ShapedArray(<<2>>, "float32"),
   ShapedArray(<<2>>, "int32"), ShapedArray(<<2, 3>>, "float32"),
   UnshapedArray("float32")}

\* The position of type t in the context's storage, 0 when it has none.
StoredAt(storage, t) ==
  IF \E k \in DOMAIN storage : storage[k] = t
  THEN CHOOSE k \in DOMAIN storage : storage[k] = t
  ELSE 0

\* The mutant of TypeGet: every request allocates a new type object.
TypeGetAlwaysAllocates(storage, t) ==
  [storage |-> Append(storage, t), id |-> Len(storage) + 1]

\* <Type>.get in a context: the type object of that structure the context
\* holds already, or a new one. The identity of a type object is its position
\* in the storage of its context.
TypeGet(storage, t) ==
  IF StoredAt(storage, t) # 0
  THEN [storage |-> storage, id |-> StoredAt(storage, t)]
  ELSE [storage |-> Append(storage, t), id |-> Len(storage) + 1]

\* convert_aval_to_ir_type with the type objects followed: the element type
\* is obtained from the context first, then the tensor type.
convert_aval_interned(storage, aval) ==
  LET r == convert_aval_to_ir_type(aval)
      e == TypeGet(storage, convert_dtype_to_ir_type(aval.dtype))
  IN  TypeGet(e.storage, r.type)

NoUniquer == [storage |-> <<>>, ids |-> [a \in InternAvals |-> 0]]

\* ---------------------------------------------------------------- actions
Call(op, fb, name, input_types, return_types, values, update_type, raised) ==
  [op |-> op, fb |-> fb, name |-> name, input_types |-> input_types,
   return_types |-> return_types, values |-> values,
   update_type |-> update_type, raised |-> raised]

\* ------------------------------------------------------ jax2tf limitations
\* Limitation.tol: a tolerance or None. The tolerances are the positive
\* numbers 1..MaxTol; only their order is read.
Tol(n) == [is_none |-> FALSE, value |-> n]

NoTol == [is_none |-> TRUE, value |-> 0]

\* A Jax2TfLimitation, as far as these methods read it.
Limitation(description, tol) ==
  [kind |-> "Jax2TfLimitation", description |-> description, tol |-> tol]

Limitations ==
  {Limitation(d, t) : d \in {"a", "b"},
                      t \in {NoTol} \cup {Tol(n) : n \in 1..MaxTol}}

\* A Python list.
PyList(items) == [kind |-> "list", items |-> items]

\* The loop of get_max_tolerance_limitation from element k on.
RECURSIVE MaxTolLoop(_, _, _)
MaxTolLoop(limitations, k, max_tol_lim) ==
  IF k > Len(limitations)
  THEN max_tol_lim
  ELSE LET l == limitations[k] IN
       MaxTolLoop(limitations, k + 1,
                  IF /\ ~l.tol.is_none
                     /\ (\/ max_tol_lim = PyNone
                         \/ l.tol.value > max_tol_lim.tol.value)
                  THEN l
                  ELSE max_tol_lim)

\* The mutant of get_max_tolerance_limitation: every limitation with a
\* tolerance replaces the one kept, so the last of them is returned.
get_max_tolerance_last(limitations) ==
  LET S == {k \in DOMAIN limitations : ~limitations[k].tol.is_none} IN
  IF S = {}
  THEN PyNone
  ELSE limitations[CHOOSE k \in S : \A j \in S : j <= k]

\* Jax2TfLimitation.get_max_tolerance_limitation
get_max_tolerance_limitation(limitations) == MaxTolLoop(limitations, 1, PyNone)

\* The harness groups followed: one the class lists as having no limitations,
\* one it has a classmethod for, one it does not know.
GroupNames == {"abs", "acos", "new_primitive"}

\* A classmethod named after a group, by what it returns for the harness.
ClassMethod(returns) == [kind |-> "classmethod", returns |-> returns]

\* What a class holds under a group name: nothing, or a classmethod that
\* returns a list of limitations, empty or not, or one that returns a
\* limitation that is not in a list.
Attrs ==
  {PyNone, ClassMethod(PyList(<<>>)),
   ClassMethod(PyList(<<Limitation("a", Tol(1))>>)),
   ClassMethod(Limitation("a", NoTol))}

\* cls: its harness_groups_no_limitations and its attributes.
Class(no_limitations, attrs) ==
  [harness_groups_no_limitations |-> no_limitations, attrs |-> attrs]

\* The class as written, over GroupNames.
Jax2TfLimitation ==
  Class({"abs"},
        [n \in GroupNames |->
           IF n = "acos"
           THEN ClassMethod(PyList(<<Limitation("a", Tol(1))>>))
           ELSE PyNone])

\* Jax2TfLimitation and the classes derived from it that limitations_for_harness
\* can be called on: any set of groups, any attribute under each group name.
Classes ==
  {Class(no_limitations, attrs) :
     no_limitations \in SUBSET GroupNames, attrs \in [GroupNames -> Attrs]}

\* getattr(cls, name, None)
getattr(cls, name) == cls.attrs[name]

\* The mutant of limitations_for_harness: a group of the set gets the empty
\* list without a look at the classmethod.
limitations_for_harness_set_first(cls, group_name) ==
  IF group_name \in cls.harness_groups_no_limitations
  THEN [raised |-> "none", result |-> PyList(<<>>)]
  ELSE IF cls.attrs[group_name] = PyNone
  THEN [raised |-> "AssertionError", result |-> PyNone]
  ELSE IF cls.attrs[group_name].returns.kind # "list"
  THEN [raised |-> "AssertionError", result |-> PyNone]
  ELSE [raised |-> "none", result |-> cls.attrs[group_name].returns]

\* Jax2TfLimitation.limitations_for_harness(harness), harness.group_name
\* being group_name: the exception ("none": it returns) and the list returned.
limitations_for_harness(cls, group_name) ==
  LET group_method == getattr(cls, group_name) IN
  IF group_name \in cls.harness_groups_no_limitations
  THEN IF group_method # PyNone
       THEN [raised |-> "AssertionError", result |-> PyNone]
       ELSE [raised |-> "none", result |-> PyList(<<>>)]
  ELSE IF group_method = PyNone
  THEN [raised |-> "AssertionError", result |-> PyNone]
  ELSE LET limitations == group_method.returns IN
       IF limitations.kind # "list"
       THEN [raised |-> "AssertionError", result |-> PyNone]
       ELSE [raised |-> "none", result |-> limitations]

\* The record of a call on Jax2TfLimitation.
LimCall(op, cls, group_name, limitations, raised, result) ==
  [op |-> op, cls |-> cls, group_name |-> group_name,
   limitations |-> limitations, raised |-> raised, result |-> result]

NoLim == LimCall("none", PyNone, "", <<>>, "none", PyNone)

\* The mutant of Builder_init: the constructor makes a context of its own
\* whether or not it was given one.
Builder_init_always_new(given) ==
  /\ context = "ctx_new"
  /\ contexts = [given |-> given, created |-> {"ctx_new"}]
  /\ current_loc = None
  /\ module = [op |-> "builtin.module", loc |-> UnknownLoc, body |-> <<>>]
  /\ ip = InsertionPoint(0)
  /\ fbs = <<>>
  /\ lastCall = Call("__init__", 0, "", <<>>, <<>>, <<>>, FALSE, "none")
  /\ conv = NoConv
  /\ uniquer = NoUniquer
  /\ dconv = NoDConv
  /\ loc_read = None

\* Builder.__init__(context=given): the context given or else a new one, no
\* location, an empty module, the insertion point at the end of the module
\* body. Nothing has been converted or read yet.
Builder_init(given) ==
  /\ context = (IF given # None THEN given ELSE "ctx_new")
  /\ contexts = [given |-> given,
                 created |-> IF given # None THEN {} ELSE {"ctx_new"}]
  /\ current_loc = None
  /\ module = [op |-> "builtin.module", loc |-> UnknownLoc, body |-> <<>>]
  /\ ip = InsertionPoint(0)
  /\ fbs = <<>>
  /\ lastCall = Call("__init__", 0, "", <<>>, <<>>, <<>>, FALSE, "none")
  /\ conv = NoConv
  /\ uniquer = NoUniquer
  /\ dconv = NoDConv
  /\ loc_read = None

\* Builder(): no context is given.
Init == Builder_init(None) /\ lim = NoLim

create_function(name, input_types, return_types) ==
  /\ Len(module.body) < MaxFuncs
  /\ NumArgs(module, Len(module.body)) + Len(input_types) <= MaxArgs
  /\ LET r == CreateFunctionResult(context, module, ip, fbs, loc, name,
                                   input_types, return_types)
     IN  /\ module' = r.module
         /\ fbs' = r.fbs
         /\ lastCall' = Call("create_function", 0, name, input_types,
                             return_types, <<>>, FALSE, r.raised)
  /\ UNCHANGED <<context, current_loc, ip, conv, uniquer, dconv, loc_read,
                 contexts, lim>>

emit_return(i, values, update_type) ==
  /\ i \in DOMAIN fbs
  /\ LET r == EmitReturnResult(module, fbs[i], loc, values, update_type)
     IN  /\ module' = r.module
         /\ lastCall' = Call("emit_return", i, "", <<>>, <<>>, values,
                             update_type, r.raised)
  /\ UNCHANGED <<context, current_loc, ip, fbs, conv, uniquer, dconv,
                 loc_read, contexts, lim>>

CreateFunction ==
  \E name \in Names, input_types \in InputTypeArgs,
     return_types \in ReturnTypeArgs :
    create_function(name, input_types, return_types)

EmitReturn ==
  \E i \in DOMAIN fbs, update_type \in BOOLEAN :
    \E values \in ValueArgs(module, fbs[i].func_op) :
      emit_return(i, values, update_type)

Next == CreateFunction \/ EmitReturn

Spec == Init /\ [][Next]_vars

\* Builder(context=given) or Builder().
InitCtx ==
  /\ \E given \in {None, "ctx_given"} : Builder_init(given)
  /\ lim = NoLim

SpecCtx == InitCtx /\ [][Next]_vars

\* The locations a caller assigns to Builder.current_loc.
Locations == {"loc(a)", "loc(b)"}

\* A caller assigns Builder.current_loc: a location, or None again.
SetCurrentLoc ==
  \E l \in Locations \cup {None} :
    /\ current_loc' = l
    /\ lastCall' = Call("current_loc =", 0, "", <<>>, <<>>, <<>>, FALSE, "none")
    /\ UNCHANGED <<context, module, ip, fbs, conv, uniquer, dconv, loc_read,
                   contexts, lim>>

\* A caller reads Builder.loc.
ReadLoc ==
  /\ loc_read' = loc
  /\ lastCall' = Call("loc", 0, "", <<>>, <<>>, <<>>, FALSE, "none")
  /\ UNCHANGED <<context, current_loc, module, ip, fbs, conv, uniquer, dconv,
                 contexts, lim>>

\* A caller that builds one function, "identity" of one or two inputs.
CreateFunctionLoc ==
  /\ module.body = <<>>
  /\ \E input_types \in {<<T1>>, <<T1, T2>>} :
       create_function("identity", input_types, <<>>)

NextLoc == SetCurrentLoc \/ ReadLoc \/ CreateFunctionLoc \/ EmitReturn

SpecLoc == Init /\ [][NextLoc]_vars

\* A caller converts an abstract value to a type.
ConvertAvalToIrType ==
  \E aval \in AbstractValues :
    LET r == convert_aval_to_ir_type(aval) IN
    /\ conv' = Conv("convert_aval_to_ir_type", aval, r.type, <<>>, r.raised,
                    r.message)
    /\ UNCHANGED <<context, current_loc, module, ip, fbs, lastCall, uniquer,
                   dconv, loc_read, contexts, lim>>

\* A caller asks for the dimensions of the type the latest conversion returned.
GetShapedTypeDimsList ==
  /\ conv.op = "convert_aval_to_ir_type"
  /\ conv.raised = "none"
  /\ LET r == get_shaped_type_dims_list(conv.type) IN
     conv' = Conv("get_shaped_type_dims_list", conv.aval, conv.type, r.dims,
                  r.raised, NoMessage)
  /\ UNCHANGED <<context, current_loc, module, ip, fbs, lastCall, uniquer,
                 dconv, loc_read, contexts, lim>>

\* The tensor types a caller holds that no conversion here produced: ranked
\* ones with any dimension static or dynamic, and the unranked one.
TensorTypes ==
  {RankedTensorType(shape, F32Type) :
     shape \in SeqUpTo({kDynamicSize} \cup (0..MaxDim), MaxRank)}
    \cup {UnrankedTensorType(F32Type)}

\* A caller asks for the dimensions of a tensor type.
GetDimsOfTensorType ==
  \E t \in TensorTypes :
    LET r == get_shaped_type_dims_list(t) IN
    /\ conv' = Conv("get_shaped_type_dims_list", [cls |-> "None"], t, r.dims,
                    r.raised, NoMessage)
    /\ UNCHANGED <<context, current_loc, module, ip, fbs, lastCall, uniquer,
                   dconv, loc_read, contexts, lim>>

\* A caller converts a dtype to an element type and that type back.
DtypeRoundTrip ==
  \E dtype \in DTypes :
    /\ dconv' = DConv(dtype, convert_dtype_to_ir_type(dtype),
                      dtype_round_trip(dtype), dconv.back)
    /\ UNCHANGED <<context, current_loc, module, ip, fbs, lastCall, conv,
                   uniquer, loc_read, contexts, lim>>

NextConv ==
  \/ ConvertAvalToIrType
  \/ GetShapedTypeDimsList
  \/ GetDimsOfTensorType
  \/ DtypeRoundTrip

SpecConv == Init /\ [][NextConv]_vars

\* The calls a test makes on Jax2TfLimitation, before they are made: the
\* limitations of a harness of any group on any class, and the limitation of
\* greatest tolerance among any limitations.
PendingCalls ==
  {LimCall("limitations_for_harness", cls, group_name, <<>>, "pending", PyNone) :
     cls \in Classes, group_name \in GroupNames}
    \cup {LimCall("get_max_tolerance_limitation", PyNone, "", limitations,
                  "pending", PyNone) :
            limitations \in SeqUpTo(Limitations, MaxLims)}

\* A test about to make one of those calls.
InitLim == Builder_init(None) /\ lim \in PendingCalls

\* The test asks for the limitations of the harness.
LimitationsForHarness ==
  /\ lim.op = "limitations_for_harness" /\ lim.raised = "pending"
  /\ LET r == limitations_for_harness(lim.cls, lim.group_name) IN
     lim' = LimCall("limitations_for_harness", lim.cls, lim.group_name, <<>>,
                    r.raised, r.result)
  /\ UNCHANGED <<context, current_loc, module, ip, fbs, lastCall, conv,
                 uniquer, dconv, loc_read, contexts>>

\* The test asks which of the limitations sets the tolerance.
GetMaxToleranceLimitation ==
  /\ lim.op = "get_max_tolerance_limitation" /\ lim.raised = "pending"
  /\ lim' = LimCall("get_max_tolerance_limitation", PyNone, "",
                    lim.limitations, "none",
                    get_max_tolerance_limitation(lim.limitations))
  /\ UNCHANGED <<context, current_loc, module, ip, fbs, lastCall, conv,
                 uniquer, dconv, loc_read, contexts>>

NextLim == LimitationsForHarness \/ GetMaxToleranceLimitation

SpecLim == InitLim /\ [][NextLim]_vars

\* A caller converts an abstract value and keeps the type object returned.
ConvertAvalInterned ==
  \E aval \in InternAvals :
    LET r == convert_aval_to_ir_type(aval)
        g == convert_aval_interned(uniquer.storage, aval)
    IN  /\ conv' = Conv("convert_aval_to_ir_type", aval, r.type, <<>>,
                        r.raised, r.message)
        /\ uniquer' = [storage |-> g.storage,
                       ids |-> [uniquer.ids EXCEPT ![aval] = g.id]]
        /\ UNCHANGED <<context, current_loc, module, ip, fbs, lastCall, dconv,
                       loc_read, contexts, lim>>

NextIntern == ConvertAvalInterned

SpecIntern == Init /\ [][NextIntern]_vars

\* ----------------------------------------------------- claims C1 .. C9
\* What the formulas read from a module m.
EntryOps(m, i) == m.body[i].blocks[1].operations

Returns(m, i) == {k \in DOMAIN EntryOps(m, i) : EntryOps(m, i)[k].op = "std.return"}

\* Closed: the builder of function i has emitted its return.
Closed(m, i) == Returns(m, i) # {}

Results(m, i) == m.body[i].type.results

\* The types, in order, of the values carried by the return of function i.
ReturnedTypes(m, i) ==
  LET ops == EntryOps(m, i) IN
  [k \in DOMAIN ops[Len(ops)].operands |-> ops[Len(ops)].operands[k].type]

Returned(call) == call.raised = "none"

\* C1: every emit_return(values, update_type=True) that returns leaves the
\* function's declared result types equal to the ordered list of the types of
\* values, whatever they were before the call.
C1_UpdateOverwritesResults ==
  [][(lastCall'.op = "emit_return" /\ Returned(lastCall')
        /\ lastCall'.update_type)
       => Results(module', lastCall'.fb)
            = [k \in DOMAIN lastCall'.values |-> lastCall'.values[k].type]]_vars

\* An updating emit_return of two values of different types has returned: the
\* result list is longer than any list create_function is given here.
C1_Witness ==
  /\ lastCall.op = "emit_return" /\ Returned(lastCall) /\ lastCall.update_type
  /\ Len(lastCall.values) = 2
  /\ lastCall.values[1].type # lastCall.values[2].type
  /\ Len(Results(module, lastCall.fb)) = 2

\* C2: an emit_return on a builder whose function already holds a return
\* ends with an exception, for both values of update_type.
C2_SecondReturnFails ==
  [][(lastCall'.op = "emit_return" /\ Closed(module, lastCall'.fb))
       => ~Returned(lastCall')]_vars

\* A second emit_return, with update_type=False, was refused by the
\* insertion point.
C2_Witness ==
  /\ lastCall.op = "emit_return" /\ lastCall.raised = "IndexError"
  /\ ~lastCall.update_type
  /\ Closed(module, lastCall.fb)

\* C3: in every reachable state every function body holds at most one return
\* operation.
C3_AtMostOneReturn ==
  \A i \in DOMAIN module.body : Cardinality(Returns(module, i)) <= 1

\* Both functions of the module hold a return and one more emit_return has
\* just been attempted.
C3_Witness ==
  /\ Len(module.body) = 2
  /\ \A i \in DOMAIN module.body : Cardinality(Returns(module, i)) = 1
  /\ lastCall.op = "emit_return" /\ ~Returned(lastCall)

\* C4: the declared result types of a function change only in the step that
\* emits its first return; once the function holds a return no step changes
\* them.
C4_ResultsChangeAtMostOnce ==
  [][\A i \in DOMAIN module.body :
       Results(module', i) # Results(module, i)
         => ~Closed(module, i) /\ Closed(module', i)]_vars

\* A further updating emit_return, with values whose types differ from the
\* declared result types, was attempted on a function that holds a return.
C4_Witness ==
  /\ lastCall.op = "emit_return" /\ lastCall.raised = "IndexError"
  /\ lastCall.update_type
  /\ Len(lastCall.values) # Len(Results(module, lastCall.fb))

\* C5 as stated: every function that holds a return has declared result types
\* equal, in order, to the types of the values its return carries.
C5_ClosedResultsMatchReturn ==
  \A i \in DOMAIN module.body :
    Closed(module, i) => Results(module, i) = ReturnedTypes(module, i)

\* C5 amended: the match is established by every emit_return with
\* update_type=True that returns, and once a function that holds a return
\* matches, it matches in every later state.
C5_UpdatedResultsMatchReturn ==
  [][\A i \in DOMAIN module'.body :
       \/ /\ lastCall'.op = "emit_return" /\ lastCall'.fb = i
          /\ Returned(lastCall') /\ lastCall'.update_type
       \/ /\ i \in DOMAIN module.body /\ Closed(module, i)
          /\ Results(module, i) = ReturnedTypes(module, i)
       => /\ Closed(module', i)
          /\ Results(module', i) = ReturnedTypes(module', i)]_vars

\* A function holds a return of two values of different types, emitted with
\* update_type=True (no declared list is that long), its declared result types
\* are those two types, and a later emit_return has been refused.
C5_Witness ==
  /\ Len(module.body) = 1
  /\ Closed(module, 1)
  /\ Len(ReturnedTypes(module, 1)) = 2
  /\ ReturnedTypes(module, 1)[1] # ReturnedTypes(module, 1)[2]
  /\ Results(module, 1) = ReturnedTypes(module, 1)
  /\ lastCall.op = "emit_return" /\ lastCall.raised = "IndexError"

\* C6: an emit_return(values, update_type=False) that returns leaves the
\* function's type as it was, also when the values' types differ from the
\* declared result types.
C6_NoUpdateKeepsResults ==
  [][(lastCall'.op = "emit_return" /\ Returned(lastCall')
        /\ ~lastCall'.update_type)
       => module'.body[lastCall'.fb].type = module.body[lastCall'.fb].type]_vars

\* A non-updating emit_return has returned although the types of its values
\* are not the declared result types.
C6_Witness ==
  /\ lastCall.op = "emit_return" /\ Returned(lastCall) /\ ~lastCall.update_type
  /\ Results(module, lastCall.fb)
       # [k \in DOMAIN lastCall.values |-> lastCall.values[k].type]

\* C7: a create_function or emit_return call that ends with an exception
\* leaves the module, its functions and the builders as they were.
C7_FailedCallChangesNothing ==
  [][~Returned(lastCall')
       => /\ module' = module
          /\ fbs' = fbs
          /\ ip' = ip]_vars

\* An updating emit_return was refused on a function whose declared result
\* types are not the types of the refused values.
C7_Witness ==
  /\ lastCall.op = "emit_return" /\ lastCall.raised = "IndexError"
  /\ lastCall.update_type
  /\ Results(module, lastCall.fb)
       # [k \in DOMAIN lastCall.values |-> lastCall.values[k].type]
  /\ \E name \in Names : \E i \in DOMAIN module.body :
       module.body[i].sym_name = name

\* C8: a create_function that returns appends exactly one function at the end
\* of the module body, leaving the functions before it alone, with the given
\* name, input types and result types and one entry block without operations;
\* no other step changes the number of functions, so that number is the number
\* of FunctionBuilders returned.
C8_CreateAppendsOneFunction ==
  [][/\ Len(module'.body) = Len(fbs')
     /\ IF lastCall'.op = "create_function" /\ Returned(lastCall')
        THEN /\ Len(module'.body) = Len(module.body) + 1
             /\ SubSeq(module'.body, 1, Len(module.body)) = module.body
             /\ LET f == module'.body[Len(module'.body)] IN
                /\ f.op = "builtin.func"
                /\ f.sym_name = lastCall'.name
                /\ f.type.inputs = lastCall'.input_types
                /\ f.type.results = lastCall'.return_types
                /\ Len(f.blocks) = 1
                /\ f.blocks[1].operations = <<>>
        ELSE Len(module'.body) = Len(module.body)]_vars

\* A second function, with one input type and one result type, has just been
\* created after the first function was given its return.
C8_Witness ==
  /\ lastCall.op = "create_function" /\ Returned(lastCall)
  /\ Len(module.body) = 2
  /\ Closed(module, 1)
  /\ Len(lastCall.input_types) = 1
  /\ Len(lastCall.return_types) = 1

\* C9: create_function with well-formed types and a name that a function of
\* the module already has returns and appends a second function of that name.
C9_DuplicateNameAccepted ==
  [][(/\ lastCall'.op = "create_function"
      /\ FunctionTypeOk(lastCall'.input_types, lastCall'.return_types)
      /\ \E i \in DOMAIN module.body :
           module.body[i].sym_name = lastCall'.name)
       => /\ Returned(lastCall')
          /\ Len(module'.body) = Len(module.body) + 1
          /\ module'.body[Len(module'.body)].sym_name = lastCall'.name]_vars

\* The module holds two functions of the same name.
C9_Witness ==
  /\ Len(module.body) = 2
  /\ module.body[1].sym_name = module.body[2].sym_name
  /\ lastCall.op = "create_function" /\ Returned(lastCall)

\* ------------------------------------------------------------- claim C10
\* C10: for every ShapedArray of shape (d0,...,dn) and any dtype,
\* get_shaped_type_dims_list(convert_aval_to_ir_type(aval)) returns the list
\* d0,...,dn: same length, same order, same sizes, no entry None.
C10_DimsOfConvertedShapedArray ==
  (/\ conv.op = "get_shaped_type_dims_list"
   /\ isinstance(conv.aval, "ShapedArray"))
    => /\ conv.raised = "none"
       /\ conv.dims = [k \in DOMAIN conv.aval.shape |-> IntDim(conv.aval.shape[k])]

\* The dimensions of the type of a ShapedArray of shape (0, 3) with a dtype
\* other than float32 have been read.
C10_Witness ==
  /\ conv.op = "get_shaped_type_dims_list"
  /\ conv.aval = ShapedArray(<<0, 3>>, "int32")
  /\ conv.raised = "none"
  /\ Len(conv.dims) = 2

\* ------------------------------------------------------ claims C11 .. C20
\* C11: for every UnshapedArray that is not a ShapedArray,
\* convert_aval_to_ir_type returns an unranked tensor type, and
\* get_shaped_type_dims_list of that type raises and returns no list.
C11_UnrankedHasNoDims ==
  (conv.op # "none" /\ conv.aval.cls = "UnshapedArray")
    => /\ conv.type.kind = "unranked"
       /\ conv.op = "convert_aval_to_ir_type" => conv.raised = "none"
       /\ conv.op = "get_shaped_type_dims_list"
            => conv.raised # "none" /\ conv.dims = <<>>

\* The dimensions of the type of an UnshapedArray have been asked for.
C11_Witness ==
  /\ conv.op = "get_shaped_type_dims_list"
  /\ conv.aval = UnshapedArray("int32")
  /\ conv.type = UnrankedTensorType(F32Type)
  /\ conv.raised = "ValueError"

\* C12: convert_aval_to_ir_type of an abstract value that is neither a
\* ShapedArray nor an UnshapedArray raises NotImplementedError with a message
\* that names that value, and returns no type.
C12_OtherAvalUnsupported ==
  (/\ conv.op = "convert_aval_to_ir_type"
   /\ conv.aval.cls \notin {"ShapedArray", "UnshapedArray"})
    => /\ conv.raised = "NotImplementedError"
       /\ conv.message.value = conv.aval
       /\ ~IsType(conv.type)

\* The conversion of an AbstractUnit has raised.
C12_Witness ==
  /\ conv.op = "convert_aval_to_ir_type"
  /\ conv.aval = AbstractUnit
  /\ conv.raised = "NotImplementedError"
  /\ conv.message.text = "Unsupported AbstractValue conversion: "

\* C13: a conversion of an abstract value returns the type object that every
\* earlier conversion of an abstract value of that dtype and shape returned,
\* whatever was converted in between.
C13_SameAvalSameTypeObject ==
  [][\A a \in InternAvals :
       uniquer.ids[a] # 0 => uniquer'.ids[a] = uniquer.ids[a]]_vars

\* An abstract value has been converted again after all the others were: the
\* context holds every type and the latest conversion allocated none.
C13_Witness ==
  /\ \A a \in InternAvals : uniquer.ids[a] # 0
  /\ Len(uniquer.storage) = 5
  /\ conv.aval = ShapedArray(<<>>, "float32")
  /\ uniquer.ids[conv.aval] = 2
  /\ uniquer.storage[5] = RankedTensorType(<<2>>, F32Type)

\* C14: a dtype that came back from a round trip through
\* convert_dtype_to_ir_type and convert_ir_type_to_dtype comes back unchanged
\* from the next round trip.
C14_RoundTripIdempotent ==
  (dconv.dtype # "none" /\ dconv.prev = dconv.dtype)
    => dconv.back = dconv.dtype

\* int32 came back as float32, and float32 was then sent round again.
C14_Witness ==
  /\ dconv.prev = "float32"
  /\ dconv.dtype = "float32"
  /\ dconv.type = F32Type
  /\ dconv.back = "float32"

\* C15: on a module whose only function is "identity", declared with the one
\* input type T and no result type and still without return, an emit_return
\* of one value of type T (update_type left True) leaves the module with
\* exactly that one function, named "identity", whose result types are <<T>>.
C15_IdentityEndToEnd ==
  [][(/\ Len(module.body) = 1
      /\ module.body[1].sym_name = "identity"
      /\ Len(module.body[1].type.inputs) = 1
      /\ Results(module, 1) = <<>>
      /\ ~Closed(module, 1)
      /\ lastCall'.op = "emit_return" /\ lastCall'.fb = 1
      /\ lastCall'.update_type
      /\ Len(lastCall'.values) = 1
      /\ lastCall'.values[1].type = module.body[1].type.inputs[1])
       => /\ Returned(lastCall')
          /\ Len(module'.body) = 1
          /\ module'.body[1].sym_name = "identity"
          /\ Len(Results(module', 1)) = 1
          /\ Results(module', 1) = module.body[1].type.inputs]_vars

\* create_function("identity", <<T1>>, <<>>) on the new module, then
\* emit_return of the function's argument: the module holds identity: T1 -> T1.
C15_Witness ==
  /\ Len(module.body) = 1
  /\ module.body[1].sym_name = "identity"
  /\ module.body[1].type = FunctionType(<<T1>>, <<T1>>)
  /\ lastCall.op = "emit_return" /\ Returned(lastCall) /\ lastCall.update_type
  /\ Len(EntryOps(module, 1)) = 1
  /\ lastCall.values = <<[kind |-> "BlockArgument", owner |-> 1,
                          arg_number |-> 1, type |-> T1]>>

\* C18: no step moves the Builder's insertion point from the end of the module
\* body or changes a FunctionBuilder's insertion point, which is the end of
\* its own function's entry block; the functions of the module stand at top
\* level in the order of the create_function calls, a new one after all the
\* others, whatever returns were emitted in between; no function body holds a
\* function.
C18_OwnCursors ==
  [][/\ ip' = ip /\ ip = InsertionPoint(0)
     /\ Len(fbs') >= Len(fbs)
     /\ Len(fbs') = Len(module'.body)
     /\ \A i \in DOMAIN fbs : fbs'[i] = fbs[i]
     /\ \A i \in DOMAIN fbs' :
          /\ fbs'[i].func_op = i
          /\ fbs'[i].ip = InsertionPoint(i)
          /\ fbs'[i].ip # ip'
     /\ \A i \in DOMAIN module.body :
          module'.body[i].sym_name = module.body[i].sym_name
     /\ (lastCall'.op = "create_function" /\ Returned(lastCall'))
          => /\ Len(module'.body) = Len(module.body) + 1
             /\ module'.body[Len(module'.body)].sym_name = lastCall'.name
     /\ \A i \in DOMAIN module'.body :
          /\ module'.body[i].op = "builtin.func"
          /\ \A k \in DOMAIN EntryOps(module', i) :
               EntryOps(module', i)[k].op # "builtin.func"]_vars

\* Function "f" was created after function "identity" had been given its
\* return, and has then been given its own.
C18_Witness ==
  /\ Len(module.body) = 2
  /\ module.body[1].sym_name = "identity" /\ module.body[2].sym_name = "f"
  /\ Closed(module, 1) /\ Closed(module, 2)
  /\ lastCall.op = "emit_return" /\ lastCall.fb = 2 /\ Returned(lastCall)
  /\ ip = InsertionPoint(0)

\* C20: in every state the argument types of every function's entry block
\* are the input types of the function's type, in order.
C20_BlockArgumentsMatchInputs ==
  \A i \in DOMAIN module.body :
    module.body[i].blocks[1].arguments = module.body[i].type.inputs

\* An updating emit_return has rewritten the type of a function of two inputs.
C20_Witness ==
  /\ lastCall.op = "emit_return" /\ Returned(lastCall) /\ lastCall.update_type
  /\ module.body[lastCall.fb].type.inputs = <<T1, T2>>
  /\ module.body[lastCall.fb].blocks[1].arguments = <<T1, T2>>
  /\ Results(module, lastCall.fb) = <<T2>>

\* C16: a read of Builder.loc returns the unknown location when current_loc
\* holds no location and the location current_loc holds otherwise, and leaves
\* current_loc as it was.
C16_LocReadsCurrentLoc ==
  [][lastCall'.op = "loc"
       => /\ current_loc = None => loc_read' = UnknownLoc
          /\ current_loc # None => loc_read' = current_loc
          /\ current_loc' = current_loc]_vars

\* Builder.loc was read as loc(a); loc(b) was then assigned and read.
C16_Witness ==
  /\ lastCall.op = "loc"
  /\ current_loc = "loc(b)"
  /\ loc_read = "loc(b)"
  /\ module.body # <<>>
  /\ module.body[1].loc = "loc(a)"

\* C17: a Builder given a context holds that context and has created none; a
\* Builder given none holds the one context it created; in every state every
\* FunctionBuilder holds the context of the Builder.
C17_OneContext ==
  /\ contexts.given # None
       => context = contexts.given /\ contexts.created = {}
  /\ contexts.given = None
       => Cardinality(contexts.created) = 1 /\ context \in contexts.created
  /\ \A i \in DOMAIN fbs : fbs[i].context = context

\* A Builder given a context has returned two FunctionBuilders.
C17_Witness ==
  /\ contexts.given = "ctx_given"
  /\ Len(fbs) = 2
  /\ fbs[1].context = "ctx_given" /\ fbs[2].context = "ctx_given"

\* C19: an emit_return on a builder whose function holds no return yet
\* returns, for both values of update_type, and leaves the entry block of
\* that function as it was with one operation more at its end: a std.return
\* whose operands are values, in order, and whose location is Builder.loc.
C19_ReturnAppendedWithLoc ==
  [][(lastCall'.op = "emit_return" /\ ~Closed(module, lastCall'.fb))
       => LET before == EntryOps(module, lastCall'.fb)
              after == EntryOps(module', lastCall'.fb)
          IN  /\ Returned(lastCall')
              /\ Len(after) = Len(before) + 1
              /\ SubSeq(after, 1, Len(before)) = before
              /\ after[Len(after)].op = "std.return"
              /\ after[Len(after)].operands = lastCall'.values
              /\ current_loc = None => after[Len(after)].loc = UnknownLoc
              /\ current_loc # None => after[Len(after)].loc = current_loc]_vars

\* With current_loc = loc(b), emit_return(values, update_type=False) has
\* appended the return of the second and the first argument, in that order,
\* to a function created under loc(a).
C19_Witness ==
  /\ lastCall.op = "emit_return" /\ Returned(lastCall) /\ ~lastCall.update_type
  /\ Len(lastCall.values) = 2
  /\ lastCall.values[1].arg_number = 2 /\ lastCall.values[2].arg_number = 1
  /\ module.body[1].loc = "loc(a)"
  /\ EntryOps(module, 1) = <<ReturnOp(lastCall.values, "loc(b)")>>

\* ------------------------------------------------------ claims C21 .. C24
\* C21: an emit_return on one FunctionBuilder, whether it returns or raises,
\* leaves the number of functions of the module, every other function (name,
\* type, entry block), the Builder's insertion point and current_loc, and the
\* FunctionBuilders as they were.
C21_EmitReturnFrame ==
  [][lastCall'.op = "emit_return"
       => /\ Len(module'.body) = Len(module.body)
          /\ \A j \in DOMAIN module.body :
               j # lastCall'.fb => module'.body[j] = module.body[j]
          /\ module'.op = module.op /\ module'.loc = module.loc
          /\ ip' = ip
          /\ current_loc' = current_loc
          /\ fbs' = fbs]_vars

\* The second of two functions has been given an updating return of its
\* argument; the first, declared with no result, still has none and no return.
C21_Witness ==
  /\ Len(module.body) = 2
  /\ lastCall.op = "emit_return" /\ lastCall.fb = 2 /\ Returned(lastCall)
  /\ lastCall.update_type /\ Len(lastCall.values) = 1
  /\ Results(module, 2) = <<T1>>
  /\ Results(module, 1) = <<>> /\ ~Closed(module, 1)

\* C22: for every ranked tensor type, get_shaped_type_dims_list returns a
\* list with one entry per dimension; entry i is None exactly when dimension i
\* is dynamic, and is the size of dimension i otherwise.
C22_DimsOfRankedType ==
  (conv.op = "get_shaped_type_dims_list" /\ conv.type.kind = "ranked")
    => /\ conv.raised = "none"
       /\ Len(conv.dims) = Len(conv.type.shape)
       /\ \A i \in DOMAIN conv.type.shape :
            /\ conv.dims[i].is_none <=> conv.type.shape[i] = kDynamicSize
            /\ ~conv.dims[i].is_none => conv.dims[i].value = conv.type.shape[i]

\* The dimensions of tensor<?x3xf32> have been read: None, then 3.
C22_Witness ==
  /\ conv.op = "get_shaped_type_dims_list"
  /\ conv.type = RankedTensorType(<<kDynamicSize, 3>>, F32Type)
  /\ conv.raised = "none"
  /\ conv.dims = <<NoneDim, IntDim(3)>>

\* C23: limitations_for_harness returns the empty list for a group that is in
\* harness_groups_no_limitations and has no classmethod, returns the list the
\* classmethod named after the group returns for a group that is not in the
\* set, and ends with AssertionError, returning no list, for a group that is
\* in the set and has a classmethod and for a group that is in neither.
C23_LimitationsForHarness ==
  (lim.op = "limitations_for_harness" /\ lim.raised # "pending")
    => LET in_set == lim.group_name \in lim.cls.harness_groups_no_limitations
           attr == lim.cls.attrs[lim.group_name]
           has_method == attr.kind = "classmethod"
       IN  /\ (in_set /\ ~has_method)
                => lim.raised = "none" /\ lim.result = PyList(<<>>)
           /\ (~in_set /\ has_method /\ attr.returns.kind = "list")
                => lim.raised = "none" /\ lim.result = attr.returns
           /\ (in_set <=> has_method)
                => lim.raised = "AssertionError" /\ lim.result.kind # "list"

\* The class as written was asked for a group it has a classmethod for, and
\* returned that method's list of one limitation.
C23_Witness ==
  /\ lim.op = "limitations_for_harness"
  /\ lim.cls = Jax2TfLimitation
  /\ lim.group_name = "acos"
  /\ lim.raised = "none"
  /\ lim.result = PyList(<<Limitation("a", Tol(1))>>)

\* C24: get_max_tolerance_limitation returns None when no limitation of the
\* sequence has a tolerance; otherwise it returns a limitation of the sequence
\* that has a tolerance, and no limitation of the sequence has a greater one;
\* for every reordering of the sequence the tolerance of what it returns is
\* the same.
C24_MaxToleranceAnyOrder ==
  (lim.op = "get_max_tolerance_limitation" /\ lim.raised # "pending")
    => LET ls == lim.limitations
           with_tol == {k \in DOMAIN ls : ~ls[k].tol.is_none}
           orders == {p \in [DOMAIN ls -> DOMAIN ls] :
                        \A j, k \in DOMAIN ls : j # k => p[j] # p[k]}
       IN  /\ lim.raised = "none"
           /\ with_tol = {} => lim.result = PyNone
           /\ with_tol # {}
                => /\ \E k \in with_tol : lim.result = ls[k]
                   /\ \A k \in with_tol :
                        lim.result.tol.value >= ls[k].tol.value
           /\ \A p \in orders :
                LET other == get_max_tolerance_limitation(
                               [k \in DOMAIN ls |-> ls[p[k]]])
                IN  IF with_tol = {}
                    THEN other = PyNone
                    ELSE other.tol = lim.result.tol

\* Of three limitations the first and the last have the greatest tolerance
\* and the second has none: the first was returned.
C24_Witness ==
  /\ lim.op = "get_max_tolerance_limitation"
  /\ lim.raised = "none"
  /\ lim.limitations = <<Limitation("a", Tol(2)), Limitation("b", NoTol),
                         Limitation("b", Tol(2))>>
  /\ lim.result = Limitation("a", Tol(2))

====
